---- MODULE Spec2Model ----
(***************************************************************************)
(* pcl::VoxelGridPartition<PointT> (voxel_grid_partition.hpp): compute()   *)
(* and applyPartition(), as a state machine over one filter instance and   *)
(* the caller's cluster list.                                              *)
(*                                                                         *)
(* Numbers.  Point coordinates are floats whose values are integers that   *)
(* a float holds exactly, leaf sizes are powers of two, so every float     *)
(* product, difference and floor below is exact and is computed on         *)
(* integers.  int is 32 bit two's complement, int64_t 64 bit; an int is    *)
(* held as its signed value, an unsigned int as the signed value of the    *)
(* same bit pattern (compared with ULess).  Signed overflow wraps, as the  *)
(* imul/add of the compiled code do.  Products wider than 32 bits are     *)
(* computed on base-256 limbs, least significant first.                    *)
(***************************************************************************)
EXTENDS Integers, Sequences, FiniteSets, TLC

-----------------------------------------------------------------------------
(* Machine arithmetic *)

INT32_MAX == 2147483647
INT32_MIN == -INT32_MAX - 1

\* limbs of a natural number below 2^31, padded with zero limbs to length n
NatLimbs(b, n) ==
  [i \in 1..n |-> IF i = 1 THEN b % 256
                  ELSE IF i = 2 THEN (b \div 256) % 256
                  ELSE IF i = 3 THEN (b \div 65536) % 256
                  ELSE IF i = 4 THEN b \div 16777216
                  ELSE 0]

\* two's complement limbs (n >= 4) of an int: sign extension of its 32 bits
Limbs(a, n) ==
  IF a >= 0 THEN NatLimbs(a, n)
  ELSE LET m == NatLimbs(-(a + 1), n) IN [i \in 1..n |-> 255 - m[i]]

RECURSIVE ColumnSum(_, _, _, _)
ColumnSum(x, y, k, i) ==
  IF i > k THEN 0 ELSE x[i] * y[k + 1 - i] + ColumnSum(x, y, k, i + 1)

RECURSIVE MulCarry(_, _, _, _)
MulCarry(x, y, k, carry) ==
  IF k > Len(x) THEN <<>>
  ELSE LET s == ColumnSum(x, y, k, 1) + carry
       IN  <<s % 256>> \o MulCarry(x, y, k + 1, s \div 256)

\* product of two limb vectors of one length, truncated to that length
\* (the wrap-around of a multiplication of that width)
MulLimbs(x, y) == MulCarry(x, y, 1, 0)

RECURSIVE AddCarry(_, _, _, _)
AddCarry(x, y, k, carry) ==
  IF k > Len(x) THEN <<>>
  ELSE LET s == x[k] + y[k] + carry
       IN  <<s % 256>> \o AddCarry(x, y, k + 1, s \div 256)

\* the int a 4-limb bit pattern stands for
Val32(l) ==
  IF l[4] >= 128
  THEN -((255 - l[1]) + 256 * (255 - l[2]) + 65536 * (255 - l[3])
          + 16777216 * (255 - l[4])) - 1
  ELSE l[1] + 256 * l[2] + 65536 * l[3] + 16777216 * l[4]

Fits15(a) == a > -32768 /\ a < 32768
Fits30(a) == a > -1073741824 /\ a < 1073741824

\* int * int, int + int, int - int with 32 bit wrap-around
I32Mul(a, b) ==
  IF Fits15(a) /\ Fits15(b) THEN a * b
  ELSE Val32(MulLimbs(Limbs(a, 4), Limbs(b, 4)))

I32Add(a, b) ==
  IF Fits30(a) /\ Fits30(b) THEN a + b
  ELSE Val32(AddCarry(Limbs(a, 4), Limbs(b, 4), 1, 0))

I32Sub(a, b) ==
  IF Fits30(a) /\ Fits30(b) THEN a - b
  ELSE Val32(AddCarry(Limbs(a, 4), [i \in 1..4 |-> 255 - Limbs(b, 4)[i]], 1, 1))

\* a < b for two unsigned ints given by their bit patterns
ULess(a, b) == IF (a >= 0) = (b >= 0) THEN a < b ELSE a >= 0

UMin(a, b) == IF ULess(a, b) THEN a ELSE b

\* a limb vector read as a signed number is > INT32_MAX (n = Len(l) > 4)
GtInt32Max(l) ==
  /\ l[Len(l)] < 128
  /\ \/ l[4] >= 128
     \/ \E i \in 5..Len(l) : l[i] # 0

-----------------------------------------------------------------------------
(* Points, clouds and the configuration of the filter *)

\* A point: x, y, z and one further scalar field f (floats); nan names the
\* fields that hold a NaN.
Pt(x, y, z, f, nan) == [x |-> x, y |-> y, z |-> z, f |-> f, nan |-> nan]

\* the field list of the point type, in the order getFieldIndex reports it
FieldList == <<"x", "y", "z", "f">>

\* pcl::getFieldIndex: the position of the named field, -1 if there is none
getFieldIndex(name) ==
  IF \E j \in 1..Len(FieldList) : FieldList[j] = name
  THEN (CHOOSE j \in 1..Len(FieldList) : FieldList[j] = name) - 1
  ELSE -1

\* a float read from a point: [nan, v]
ReadField(p, name) == [nan |-> name \in p.nan, v |-> p[name]]

\* float comparisons against a finite limit: false when the value is a NaN
FLess(a, limit) == ~a.nan /\ a.v < limit
FGreater(a, limit) == ~a.nan /\ a.v > limit

pcl_isfinite(p, name) == name \notin p.nan

\* floor(coordinate * inverse_leaf_size_), exact on the model's values
FloorScaled(v, leaf) == v \div leaf

-----------------------------------------------------------------------------
(* applyPartition, step by step.  c is the configuration of the instance   *)
(* (the fields named by the using-declarations), e the choices the         *)
(* environment makes in the call.                                          *)

\* PCLBase::initCompute as compute() uses it: false when no input is set
initCompute(c) == c.input_.set

\* lines 174-179: the float at fields[distance_idx].offset of the point.
\* With distance_idx = -1 the subscript is out of bounds: the offset is
\* whatever lies before the field list, here an offset inside the point
\* record chosen by the environment (e.junk).
distance_value(c, e, p) ==
  LET distance_idx == getFieldIndex(c.filter_field_name_)
  IN  IF distance_idx >= 0 THEN ReadField(p, FieldList[distance_idx + 1])
      ELSE ReadField(p, e.junk)

\* lines 167-172 and 218-223: the point is skipped as invalid
SkippedNonFinite(c, p) ==
  /\ ~c.input_.is_dense
  /\ \/ ~pcl_isfinite(p, "x")
     \/ ~pcl_isfinite(p, "y")
     \/ ~pcl_isfinite(p, "z")

\* lines 181-191: the point is cut out by the field limits
SkippedByLimits(c, e, p) ==
  LET v == distance_value(c, e, p)
  IN  IF c.filter_limit_negative_
      THEN FLess(v, c.filter_limit_max_) /\ FGreater(v, c.filter_limit_min_)
      ELSE FGreater(v, c.filter_limit_max_) \/ FLess(v, c.filter_limit_min_)

\* lines 151-240: the point reaches index_vector.push_back
Pushed(c, e, p) ==
  IF c.filter_field_name_ # ""
  THEN ~SkippedNonFinite(c, p) /\ ~SkippedByLimits(c, e, p)
  ELSE ~SkippedNonFinite(c, p)

\* pcl::getMinMax3D (both overloads): the corners of the box around the
\* points of *indices_ that pass the finiteness test and the field limits;
\* no point passing leaves min_p = FLT_MAX, max_p = -FLT_MAX (empty).
getMinMax3D(c, e) ==
  LET pts == c.input_.points
      Pass(p) == /\ ~SkippedNonFinite(c, p)
                 /\ c.filter_field_name_ # "" => ~SkippedByLimits(c, e, p)
      in == {i \in DOMAIN c.indices_ : Pass(pts[c.indices_[i]])}
      Lo(a) == CHOOSE v \in {pts[c.indices_[i]][a] : i \in in} :
                 \A i \in in : v <= pts[c.indices_[i]][a]
      Hi(a) == CHOOSE v \in {pts[c.indices_[i]][a] : i \in in} :
                 \A i \in in : v >= pts[c.indices_[i]][a]
  IN  IF in = {} THEN [empty |-> TRUE, min_p |-> <<0, 0, 0>>, max_p |-> <<0, 0, 0>>]
      ELSE [empty |-> FALSE,
            min_p |-> <<Lo("x"), Lo("y"), Lo("z")>>,
            max_p |-> <<Hi("x"), Hi("y"), Hi("z")>>]

\* lines 102-107: dx, dy, dz on a box that holds a point
GuardCount(box, leaf, a) == (box.max_p[a] - box.min_p[a]) \div leaf[a] + 1

\* x * y * z > numeric_limits<int32_t>::max() for three int64_t given by their
\* limbs, the product taken in int64_t
Int64ProductExceeds(x, y, z) == GtInt32Max(MulLimbs(MulLimbs(x, y), z))

\* lines 102-110: the overflow check.  On an empty box max_p - min_p is -inf;
\* its conversion to int64_t is out of range and yields INT64_MIN on the
\* targets that convert with cvttss2si or fcvtzs, so dx = INT64_MIN + 1.
GuardTrips(box, leaf) ==
  IF box.empty
  THEN LET d == <<1, 0, 0, 0, 0, 0, 0, 128>> IN Int64ProductExceeds(d, d, d)
  ELSE LET dx == GuardCount(box, leaf, 1)
           dy == GuardCount(box, leaf, 2)
           dz == GuardCount(box, leaf, 3)
       IN  IF dx < 1024 /\ dy < 1024 /\ dz < 1024
           THEN dx * dy * dz > INT32_MAX
           ELSE Int64ProductExceeds(Limbs(dx, 8), Limbs(dy, 8), Limbs(dz, 8))

\* lines 118-123: static_cast<int>(floor(min_p * inverse_leaf_size_)).  On an
\* empty box the operand is +-FLT_MAX scaled, out of the range of int: the
\* conversion yields INT32_MIN (cvttss2si) or saturates (fcvtzs), by e.cast.
MinB(box, leaf, e) ==
  IF box.empty
  THEN LET m == IF e.cast = "saturate" THEN INT32_MAX ELSE INT32_MIN
       IN  <<m, m, m>>
  ELSE [a \in 1..3 |-> FloorScaled(box.min_p[a], leaf[a])]

MaxB(box, leaf, e) ==
  IF box.empty THEN <<INT32_MIN, INT32_MIN, INT32_MIN>>
  ELSE [a \in 1..3 |-> FloorScaled(box.max_p[a], leaf[a])]

\* line 126: div_b_ = max_b_ - min_b_ + Ones, in int
DivB(minb, maxb) == [a \in 1..3 |-> I32Add(I32Sub(maxb[a], minb[a]), 1)]

\* line 130: divb_mul_ = (1, div_b_[0], div_b_[0] * div_b_[1]), in int
DivbMul(divb) == <<1, divb[1], I32Mul(divb[1], divb[2])>>

\* lines 193-201 and 225-233: the cell coordinates of a pushed point
Ijk(p, leaf, minb) ==
  <<FloorScaled(p.x, leaf[1]) - minb[1],
    FloorScaled(p.y, leaf[2]) - minb[2],
    FloorScaled(p.z, leaf[3]) - minb[3]>>

\* lines 204 and 236: the linear index, in int, then cast to unsigned int
LinearIdx(ijk, mul) ==
  I32Add(I32Add(I32Mul(ijk[1], mul[1]), I32Mul(ijk[2], mul[2])),
         I32Mul(ijk[3], mul[3]))

\* lines 165-207 and 216-239: index_vector after the first pass over the
\* first n entries of *indices_
RECURSIVE FirstPass(_, _, _, _, _)
FirstPass(c, e, minb, mul, n) ==
  IF n = 0 THEN <<>>
  ELSE LET it == c.indices_[n]
           p == c.input_.points[it]
           rest == FirstPass(c, e, minb, mul, n - 1)
       IN  IF Pushed(c, e, p)
           THEN Append(rest, [idx |-> LinearIdx(Ijk(p, c.leaf_size_, minb), mul),
                              cloud_point_index |-> it])
           ELSE rest

\* operator< of cloud_point_index_idx: by idx, as unsigned
RECURSIVE InsertSorted(_, _)
InsertSorted(s, x) ==
  IF s = <<>> THEN <<x>>
  ELSE IF ULess(x.idx, s[Len(s)].idx)
       THEN Append(InsertSorted(SubSeq(s, 1, Len(s) - 1), x), s[Len(s)])
       ELSE Append(s, x)

\* index_vector left in the order of the first pass
NoSort(v) == v

\* lines 245-246: std::sort of index_vector
RECURSIVE SortIndexVector(_)
SortIndexVector(v) ==
  IF v = <<>> THEN <<>>
  ELSE InsertSorted(SortIndexVector(SubSeq(v, 1, Len(v) - 1)), v[Len(v)])

\* lines 262-265: the first position after index whose idx differs
RECURSIVE RunEnd(_, _, _)
RunEnd(v, index, i) ==
  IF i <= Len(v) /\ v[i].idx = v[index].idx THEN RunEnd(v, index, i + 1) ELSE i

\* a threshold that asks for more than k points
KeepRunStrict(first, last, k) == last - first > k

\* line 266: the run is long enough to be kept
KeepRun(first, last, k) == last - first >= k

\* lines 261-272: first_and_last_indices_vector, scanning from index
\* (positions are 1-based: a run is first..last-1)
RECURSIVE ScanRuns(_, _, _)
ScanRuns(v, index, k) ==
  IF index > Len(v) THEN <<>>
  ELSE LET i == RunEnd(v, index, index + 1)
       IN  (IF KeepRun(index, i, k) THEN <<<<index, i>>>> ELSE <<>>)
           \o ScanRuns(v, i, k)

\* line 283: new_layout_size = div_b_[0] * div_b_[1] * div_b_[2], the product
\* taken in int and stored in a uint32_t
NewLayoutSize(divb) == I32Mul(I32Mul(divb[1], divb[2]), divb[3])

\* lines 285-290: the first min(new size, old size) entries are set to -1.
\* leaf_layout_ is [size, cells]: cells holds <<index, value>> for the
\* entries that are not -1.
Reinit(layout, new_layout_size) ==
  LET reinit_size == UMin(new_layout_size, layout.size)
  IN  [layout EXCEPT !.cells = {x \in layout.cells : ~ULess(x[1], reinit_size)}]

\* line 291: leaf_layout_.resize(new_layout_size, -1)
Resize(layout, new_layout_size) ==
  [size |-> new_layout_size,
   cells |-> {x \in layout.cells : ULess(x[1], new_layout_size)}]

\* line 317: leaf_layout_[idx] = index; a subscript past the end writes
\* outside the table and leaves the table as it is
InTable(layout, idx) == ULess(idx, layout.size)

StoreLeaf(layout, idx, index) ==
  IF InTable(layout, idx)
  THEN [layout EXCEPT !.cells = {x \in @ : x[1] # idx} \cup {<<idx, index>>}]
  ELSE layout

\* lines 310-313: the points of one run, pushed into pc_vector[cp]; their
\* order within the run is the one std::sort left, which is unspecified,
\* so a cluster is the set of the cloud indices of its points
ClusterOf(v, run) == {v[i].cloud_point_index : i \in run[1]..(run[2] - 1)}

\* lines 303-320: leaf_layout_ after the runs 1..n are stored
RECURSIVE StoreRuns(_, _, _, _)
StoreRuns(layout, v, runs, n) ==
  IF n = 0 THEN layout
  ELSE StoreLeaf(StoreRuns(layout, v, runs, n - 1), v[runs[n][1]].idx, n - 1)

\* lines 178: the call subscripts the field list with -1 (some point of
\* *indices_ gets as far as the read of its distance value)
BadSubscript(c) ==
  /\ c.filter_field_name_ # ""
  /\ getFieldIndex(c.filter_field_name_) = -1
  /\ \E i \in DOMAIN c.indices_ : ~SkippedNonFinite(c, c.input_.points[c.indices_[i]])

\* line 317 with an idx that is no subscript of the table
WritesOutside(layout, v, runs) ==
  \E n \in DOMAIN runs : ~InTable(layout, v[runs[n][1]].idx)

\* lines 291-300: resize has to grow the table and the allocation fails
ResizeThrows(e, layout, new_layout_size) ==
  e.bad_alloc /\ ULess(layout.size, new_layout_size)

\* applyPartition (lines 79-321).  old holds the fields of the instance and
\* the caller's pc_vector before the call; the result holds them after it,
\* with ret: how the call ended.
applyPartition(c, e, old) ==
  IF ~c.input_.set
  THEN [old EXCEPT !.pc_vector = <<>>,
                   !.ret = [status |-> "no_input", bad_subscript |-> FALSE,
                            outside |-> FALSE]]
  ELSE
  LET box == getMinMax3D(c, e)
  IN
  IF GuardTrips(box, c.leaf_size_)
  THEN [old EXCEPT !.pc_vector = <<>>,
                   !.ret = [status |-> "overflow", bad_subscript |-> FALSE,
                            outside |-> FALSE]]
  ELSE
  LET minb == MinB(box, c.leaf_size_, e)
      maxb == MaxB(box, c.leaf_size_, e)
      divb == DivB(minb, maxb)
      mul == DivbMul(divb)
      index_vector ==
        SortIndexVector(FirstPass(c, e, minb, mul, Len(c.indices_)))
      runs == ScanRuns(index_vector, 1, c.min_points_per_voxel_)
      total == Len(runs)
      new_layout_size == NewLayoutSize(divb)
      reinit == Reinit(old.leaf_layout_, new_layout_size)
      resized == Resize(reinit, new_layout_size)
      grid == [min_b_ |-> minb, max_b_ |-> maxb, div_b_ |-> divb,
               divb_mul_ |-> mul]
  IN
  IF c.save_leaf_layout_ /\ ResizeThrows(e, old.leaf_layout_, new_layout_size)
  THEN grid @@
       [pc_vector |-> [cp \in 1..total |-> {}],
        leaf_layout_ |-> reinit,
        ret |-> [status |-> "PCLException", bad_subscript |-> BadSubscript(c),
                 outside |-> FALSE]]
  ELSE grid @@
       [pc_vector |-> [cp \in 1..total |-> ClusterOf(index_vector, runs[cp])],
        leaf_layout_ |->
          IF c.save_leaf_layout_
          THEN StoreRuns(resized, index_vector, runs, total)
          ELSE old.leaf_layout_,
        ret |-> [status |-> "done", bad_subscript |-> BadSubscript(c),
                 outside |-> c.save_leaf_layout_
                             /\ WritesOutside(resized, index_vector, runs)]]

-----------------------------------------------------------------------------
(* The instance, the caller's list, and the calls *)

VARIABLES
  cfg,          \* the configuration the last call ran under
  env,          \* the environment's choices in the last call
  pc_vector,    \* the caller's cluster list
  min_b_, max_b_, div_b_, divb_mul_,   \* the grid shape kept by the instance
  leaf_layout_, \* the leaf layout kept by the instance
  ret           \* how the last call ended

vars == <<cfg, env, pc_vector, min_b_, max_b_, div_b_, divb_mul_, leaf_layout_, ret>>

\* the fields of the instance and the caller's list, as one record
Fields ==
  [pc_vector |-> pc_vector, min_b_ |-> min_b_, max_b_ |-> max_b_,
   div_b_ |-> div_b_, divb_mul_ |-> divb_mul_, leaf_layout_ |-> leaf_layout_,
   ret |-> ret]

\* a freshly constructed instance (VoxelGrid's constructor zeroes the grid
\* shape, the layout is empty) and an empty list
Fresh ==
  [pc_vector |-> <<>>, min_b_ |-> <<0, 0, 0>>, max_b_ |-> <<0, 0, 0>>,
   div_b_ |-> <<0, 0, 0>>, divb_mul_ |-> <<0, 0, 0>>,
   leaf_layout_ |-> [size |-> 0, cells |-> {}],
   ret |-> [status |-> "init", bad_subscript |-> FALSE, outside |-> FALSE]]

-----------------------------------------------------------------------------
(* The inputs *)

MaxPts == 3
MaxSeqPts == 2
MaxK == 2

\* The points: two near the origin, one far out, one with a NaN coordinate.
\* Every coordinate, and every difference of two coordinates of one axis, is
\* an integer a float holds exactly (below 2^24, or a multiple of 64 up to
\* 2^30).
PB == Pt(-1, -1, 64, 1, {})
PC == Pt(0, 0, 0, 3, {})
PD == Pt(92680, 92680, 1073741824, 0, {"f"})
PE == Pt(0, 0, 0, 2, {"x"})

PointSet == {PB, PC, PD, PE}
SeqPointSet == {PB, PC, PD}

LeafSizes == {<<1, 1, 1>>, <<131072, 131072, 1>>, <<2, 2, 128>>}
SeqLeafSizes == {<<1, 1, 1>>, <<2, 2, 128>>}

NoInput == [set |-> FALSE, points |-> <<>>, is_dense |-> TRUE]

AllFinite(s) == \A i \in DOMAIN s : s[i].nan \cap {"x", "y", "z"} = {}

\* the clouds of at most n points of ps.  is_dense is set exactly on the
\* clouds without a NaN coordinate: on those the finiteness test passes
\* every point whatever the flag says.
Clouds(ps, n) ==
  {[set |-> TRUE, points |-> s, is_dense |-> AllFinite(s)] :
     s \in UNION {[1..m -> ps] : m \in 0..n}}

\* *indices_: every point (the indices initCompute makes up), or every
\* point but the first
IndexChoices(n, subsets) ==
  {[i \in 1..n |-> i]}
  \cup (IF subsets /\ n > 0 THEN {[i \in 1..(n - 1) |-> i + 1]} ELSE {})

\* the field limits: keep [1, 2], or cut out (0, 3)
NoFilter == [name |-> "", lo |-> 1, hi |-> 2, neg |-> FALSE]

Filters(names) ==
  {NoFilter} \cup {[name |-> nm, lo |-> 1, hi |-> 2, neg |-> FALSE] : nm \in names}
             \cup {[name |-> nm, lo |-> 0, hi |-> 3, neg |-> TRUE] : nm \in names}

Config(in, ix, leaf, f, k, save) ==
  [input_ |-> in, indices_ |-> ix, leaf_size_ |-> leaf,
   filter_field_name_ |-> f.name, filter_limit_min_ |-> f.lo,
   filter_limit_max_ |-> f.hi, filter_limit_negative_ |-> f.neg,
   min_points_per_voxel_ |-> k, save_leaf_layout_ |-> save]

\* the configurations a caller can set up from the given choices
Configs(clouds, leafs, names, ks, subsets) ==
  UNION {{Config(in, ix, leaf, f, k, save) :
            ix \in IndexChoices(Len(in.points), subsets), leaf \in leafs,
            f \in Filters(names), k \in ks, save \in BOOLEAN} : in \in clouds}

\* where the read at subscript -1 may land: a field of the point itself
JunkFields == {"x", "z"}

\* the choices the environment has in a call under c on an instance whose
\* table is layout: the offset read at subscript -1, the result of the
\* out-of-range conversions on an empty box, a failing allocation when
\* the table has to grow
Envs(c, layout) ==
  UNION {LET e0 == [bad_alloc |-> FALSE, cast |-> "indefinite", junk |-> j]
             box == getMinMax3D(c, e0)
             casts == IF c.input_.set /\ box.empty
                      THEN {"indefinite", "saturate"} ELSE {"indefinite"}
         IN  UNION {LET e1 == [e0 EXCEPT !.cast = ct]
                        grows ==
                          /\ c.input_.set /\ c.save_leaf_layout_
                          /\ ~GuardTrips(box, c.leaf_size_)
                          /\ ULess(layout.size,
                                   NewLayoutSize(DivB(MinB(box, c.leaf_size_, e1),
                                                      MaxB(box, c.leaf_size_, e1))))
                    IN  {[e1 EXCEPT !.bad_alloc = b] :
                           b \in IF grows THEN BOOLEAN ELSE {FALSE}} : ct \in casts} :
           j \in IF c.filter_field_name_ # "" /\ getFieldIndex(c.filter_field_name_) = -1
                 THEN JunkFields ELSE {"x"}}

-----------------------------------------------------------------------------
(* The calls *)

\* compute (lines 64-69) under configuration c, the environment choosing e
compute(c, e) ==
  \E new \in {IF initCompute(c) THEN applyPartition(c, e, Fields)
              ELSE [Fields EXCEPT !.ret = [status |-> "not_run",
                                           bad_subscript |-> FALSE,
                                           outside |-> FALSE]]} :
      /\ cfg' = c
      /\ env' = e
      /\ pc_vector' = new.pc_vector
      /\ min_b_' = new.min_b_
      /\ max_b_' = new.max_b_
      /\ div_b_' = new.div_b_
      /\ divb_mul_' = new.divb_mul_
      /\ leaf_layout_' = new.leaf_layout_
      /\ ret' = new.ret

DefaultConfig == Config(NoInput, <<>>, <<1, 1, 1>>, NoFilter, 1, FALSE)
NoEnv == [bad_alloc |-> FALSE, cast |-> "indefinite", junk |-> "x"]

FreshInstance ==
  /\ env = NoEnv
  /\ pc_vector = Fresh.pc_vector
  /\ min_b_ = Fresh.min_b_
  /\ max_b_ = Fresh.max_b_
  /\ div_b_ = Fresh.div_b_
  /\ divb_mul_ = Fresh.divb_mul_
  /\ leaf_layout_ = Fresh.leaf_layout_
  /\ ret = Fresh.ret

\* Any sequence of calls on one instance with one list: before each call
\* the caller sets the cloud and the parameters.
SeqConfigs ==
  Configs(Clouds(SeqPointSet, MaxSeqPts) \cup {NoInput},
          SeqLeafSizes, {}, {1}, FALSE)

Init == cfg = DefaultConfig /\ FreshInstance

Next == \E c \in SeqConfigs : \E e \in Envs(c, leaf_layout_) : compute(c, e)

Spec == Init /\ [][Next]_vars

\* One call on a fresh instance, over all the configurations.
CallConfigs ==
  Configs(Clouds(PointSet, MaxPts) \cup {NoInput}, LeafSizes, {"f", "bad"}, 1..MaxK, TRUE)

InitCall == cfg \in CallConfigs /\ FreshInstance

NextCall ==
  /\ ret.status = "init"
  /\ \E e \in Envs(cfg, leaf_layout_) : compute(cfg, e)

SpecCall == InitCall /\ [][NextCall]_vars

-----------------------------------------------------------------------------
(* What the claims speak of, read off the state after a call *)

Points == cfg.input_.points
Candidates == {cfg.indices_[i] : i \in DOMAIN cfg.indices_}

\* the call ran applyPartition on a cloud
RanOnCloud == ret.status \in {"done", "overflow", "PCLException"}

\* the integer cell coordinates of point i: floor(coordinate / leaf size)
CellOf(i) ==
  <<FloorScaled(Points[i].x, cfg.leaf_size_[1]),
    FloorScaled(Points[i].y, cfg.leaf_size_[2]),
    FloorScaled(Points[i].z, cfg.leaf_size_[3])>>

\* the linear cell index of point i under the grid shape the instance holds
IdxOf(i) == LinearIdx(Ijk(Points[i], cfg.leaf_size_, min_b_), divb_mul_)

\* the number of output clusters that hold point i
Occurrences(i) == Cardinality({p \in DOMAIN pc_vector : i \in pc_vector[p]})

FiniteXYZ(i) == Points[i].nan \cap {"x", "y", "z"} = {}

\* the box of the last call
LastBox == getMinMax3D(cfg, env)

\* x * y * z for three naturals below 2^31, without wrap-around, is at most
\* INT32_MAX
TrueProductFits(x, y, z) ==
  ~GtInt32Max(MulLimbs(MulLimbs(NatLimbs(x, 12), NatLimbs(y, 12)), NatLimbs(z, 12)))

-----------------------------------------------------------------------------
(* C1 *)

\* C1's admission rule as the claim words it: (dense or x, y, z finite) and
\* (no field set, or lo <= v <= hi when not inverted, or not lo < v < hi
\* when inverted), v the value of the named field
AdmittedAsClaimed(i) ==
  LET v == ReadField(Points[i], cfg.filter_field_name_)
      lo == cfg.filter_limit_min_
      hi == cfg.filter_limit_max_
  IN  /\ i \in Candidates
      /\ cfg.input_.is_dense \/ FiniteXYZ(i)
      /\ \/ cfg.filter_field_name_ = ""
         \/ ~cfg.filter_limit_negative_ /\ ~v.nan /\ lo <= v.v /\ v.v <= hi
         \/ cfg.filter_limit_negative_ /\ ~(~v.nan /\ lo < v.v /\ v.v < hi)

AdmittedAsAmended(i) ==
  LET v == distance_value(cfg, env, Points[i])
      lo == cfg.filter_limit_min_
      hi == cfg.filter_limit_max_
  IN  /\ i \in Candidates
      /\ cfg.input_.is_dense \/ FiniteXYZ(i)
      /\ \/ cfg.filter_field_name_ = ""
         \/ ~cfg.filter_limit_negative_ /\ ~(FGreater(v, hi) \/ FLess(v, lo))
         \/ cfg.filter_limit_negative_ /\ ~(FGreater(v, lo) /\ FLess(v, hi))

C1_WitnessShortRun ==
  /\ ret.status = "done"
  /\ cfg.min_points_per_voxel_ = 2
  /\ Len(pc_vector) = 1
  /\ \E i \in Candidates : AdmittedAsAmended(i) /\ Occurrences(i) = 0

-----------------------------------------------------------------------------
(* C2 *)

\* C2: in the result of a call that passes the overflow check, two points
\* are in the same output cluster exactly when their integer cell
\* coordinates are identical.
C2_NoCrossCellMixing ==
  ret.status = "done" =>
    \A p, q \in DOMAIN pc_vector :
      \A i \in pc_vector[p], j \in pc_vector[q] :
        (p = q) <=> (CellOf(i) = CellOf(j))

-----------------------------------------------------------------------------
(* C3 *)

\* C3: when the per-axis counts floor((max - min) / leaf) + 1 of the box
\* have a true product above 2^31 - 1, the call returns an empty list by the
\* overflow branch.
C3_GuardCatchesOverflow ==
  (/\ RanOnCloud
   /\ ~LastBox.empty
   /\ ~TrueProductFits(GuardCount(LastBox, cfg.leaf_size_, 1),
                       GuardCount(LastBox, cfg.leaf_size_, 2),
                       GuardCount(LastBox, cfg.leaf_size_, 3)))
  => ret.status = "overflow" /\ pc_vector = <<>>

-----------------------------------------------------------------------------
(* C4 *)

\* C4: after a call that records the leaf layout, the table maps the linear
\* cell index of every member of the cluster at position p to p, and every
\* entry other than -1 is a position of the result.
C4_LeafLayoutConsistent ==
  (ret.status = "done" /\ cfg.save_leaf_layout_) =>
    /\ \A p \in DOMAIN pc_vector :
         \A i \in pc_vector[p] : <<IdxOf(i), p - 1>> \in leaf_layout_.cells
    /\ \A x \in leaf_layout_.cells : 0 <= x[2] /\ x[2] < Len(pc_vector)

-----------------------------------------------------------------------------
(* C5 *)

\* C5: after compute on an instance with no input cloud the caller's list
\* is empty.
C5_NoInputEmptiesList ==
  ret.status \in {"not_run", "no_input"} => pc_vector = <<>>

-----------------------------------------------------------------------------
(* C7 *)

\* C7: when the allocation of the leaf layout fails, the caller's list (empty
\* before the call) holds no cluster of the failed call, and the table is
\* either as it was or wholly re-initialized at its new size.
C7_FailedAllocationLeavesNothing ==
  ret.status = "PCLException" =>
    /\ pc_vector = <<>>
    /\ \/ leaf_layout_ = Fresh.leaf_layout_
       \/ leaf_layout_ = [size |-> NewLayoutSize(div_b_), cells |-> {}]

-----------------------------------------------------------------------------
(* C8 *)

\* C8: a call with a field name the point type does not have never
\* subscripts the field list with -1, and its result is that of the same
\* call with no field set.
C8_UnknownFieldIsIgnored ==
  (/\ ret.status = "done"
   /\ cfg.filter_field_name_ # ""
   /\ getFieldIndex(cfg.filter_field_name_) = -1)
  => /\ ~ret.bad_subscript
     /\ pc_vector =
          applyPartition([cfg EXCEPT !.filter_field_name_ = ""], env, Fresh).pc_vector

-----------------------------------------------------------------------------
(* C9 *)

\* C9: after a call on a cloud, the grid shape and the leaf layout of the
\* instance are those the same call leaves on a freshly constructed
\* instance: nothing an earlier call wrote is left.
C9_NothingLeftOfEarlierCalls ==
  RanOnCloud =>
    LET alone == applyPartition(cfg, env, Fresh)
    IN  /\ min_b_ = alone.min_b_
        /\ max_b_ = alone.max_b_
        /\ div_b_ = alone.div_b_
        /\ divb_mul_ = alone.divb_mul_
        /\ leaf_layout_ = alone.leaf_layout_

-----------------------------------------------------------------------------
(* C10 *)

\* C10: in a call that passes the overflow check and indexes cells, the
\* product of the divisions div_b_ is at most 2^31 - 1, and on no axis is
\* the count the check used below the division used for indexing.
C10_GridFitsInt32 ==
  (ret.status \in {"done", "PCLException"} /\ ~LastBox.empty) =>
    /\ TrueProductFits(div_b_[1], div_b_[2], div_b_[3])
    /\ \A a \in 1..3 : GuardCount(LastBox, cfg.leaf_size_, a) >= div_b_[a]

\* C10, first half alone: the product of the divisions is at most 2^31 - 1
C10_ProductFitsInt32 ==
  (ret.status \in {"done", "PCLException"} /\ ~LastBox.empty) =>
    TrueProductFits(div_b_[1], div_b_[2], div_b_[3])

-----------------------------------------------------------------------------
(* C6 *)

\* C6: in the result of a call the clusters are in strictly ascending order
\* of linear cell index: for positions p < q every point of cluster p has a
\* smaller linear cell index (as unsigned int) than every point of cluster
\* q, whatever the order of the points in the cloud.
C6_ClustersAscend ==
  RanOnCloud =>
    \A p, q \in DOMAIN pc_vector :
      p < q => \A i \in pc_vector[p], j \in pc_vector[q] :
                 ULess(IdxOf(i), IdxOf(j))

\* a result of two clusters from a cloud whose first point has the larger
\* linear cell index
C6_Witness ==
  /\ ret.status = "done"
  /\ Len(pc_vector) >= 2
  /\ Len(cfg.indices_) >= 2
  /\ cfg.indices_[1] \in pc_vector[2]
  /\ cfg.indices_[2] \in pc_vector[1]

====
